---- MODULE Spec2Model ----
(***************************************************************************)
(* Monte-Carlo tree search of mcts_vanilla.py and mcts_modified.py.        *)
(*                                                                         *)
(* The two files share traverse_nodes, expand_leaf, backpropagate, ucb,    *)
(* get_best_action, is_win and think; they differ in rollout only.  The    *)
(* variable `variant` says which file runs.                                *)
(*                                                                         *)
(* Board (p2_t3) and MCTSNode (mcts_node) are imported by both files and   *)
(* are not part of them.  They are modelled from the interface the search  *)
(* consumes: MCTSNode as a record, Board as a small box game with the six  *)
(* queries the search calls.                                               *)
(***************************************************************************)
EXTENDS Integers, Sequences, FiniteSets, TLC

VARIABLES
    variant,        \* "vanilla" (mcts_vanilla.py) or "modified" (mcts_modified.py)
    num_nodes,      \* the module global num_nodes: think's iteration budget
    current_state,  \* think's argument
    bot_identity,   \* think's local, captured once
    tree,           \* the MCTSNode objects, by handle; tree[Root] is root_node
    iter,           \* completed iterations of think's for loop
    pc,             \* position in think and its callees
    node,           \* think's / traverse_nodes' local `node`
    state,          \* think's / traverse_nodes' local `state`
    sim_state,      \* rollout's local `state`, then think's terminal_state
    sim_steps,      \* iterations of rollout's while loop in the current call
    won,            \* think's local `won`
    bp_node,        \* backpropagate's parameter `node`
    bp_entry,       \* the tree at the outermost call of backpropagate
    best_action     \* think's return value

vars == <<variant, num_nodes, current_state, bot_identity, tree, iter, pc, node,
          state, sim_state, sim_steps, won, bp_node, bp_entry, best_action>>

(***************************************************************************)
(* Python values                                                           *)
(***************************************************************************)
\* Python's None, for an action, a payoff mapping or a state not yet assigned.
None == << >>

\* A node handle standing for `None` in MCTSNode.parent.
NoNode == 0

\* Python compares values of different types as unequal: an int is never
\* equal to a tuple.  Values are tagged with their type to compute `!=`.
PyInt(i) == [type |-> "int", val |-> <<i>>]
PyTuple(t) == [type |-> "tuple", val |-> t]
PyNotEqual(x, y) == x.type # y.type \/ x.val # y.val

(***************************************************************************)
(* Board: a row of NumBoxes boxes of CellsPerBox cells.  Players 1 and 2   *)
(* alternate marking an empty cell; an action is the tuple (box, cell).    *)
(* The player who marks the last empty cell of a box owns the box.  A      *)
(* player who owns two adjacent boxes wins; the game also ends, drawn,     *)
(* when every cell is marked.                                              *)
(*                                                                         *)
(* A state carries the rules of the Board object it is played on:          *)
(*   "strict"   legal_actions is empty at an ended state;                  *)
(*   "lenient"  legal_actions still lists the empty cells at an ended      *)
(*              state;                                                     *)
(*   "endless"  is_ended is never true and every cell can be marked again. *)
(***************************************************************************)
NumBoxes == 3
CellsPerBox == 2

Players == {1, 2}
Boxes == 1..NumBoxes
Cells == 1..CellsPerBox
NumCells == NumBoxes * CellsPerBox

\* Every action, in the board's enumeration order (by box, then by cell).
AllActions ==
    [i \in 1..NumCells |-> <<((i - 1) \div CellsPerBox) + 1, ((i - 1) % CellsPerBox) + 1>>]

Rules == {"strict", "lenient", "endless"}

InitialState == [filled |-> {}, owned |-> [b \in Boxes |-> 0], rules |-> "strict"]

current_player(s) == IF Cardinality(s.filled) % 2 = 0 THEN 1 ELSE 2

owned_boxes(s) == s.owned

Winner(s) ==
    IF \E b \in 1..(NumBoxes - 1) : s.owned[b] = 1 /\ s.owned[b + 1] = 1 THEN 1
    ELSE IF \E b \in 1..(NumBoxes - 1) : s.owned[b] = 2 /\ s.owned[b + 1] = 2 THEN 2
    ELSE 0

is_ended(s) ==
    /\ s.rules # "endless"
    /\ Winner(s) # 0 \/ Cardinality(s.filled) = NumCells

legal_actions(s) ==
    IF s.rules = "endless" THEN AllActions
    ELSE IF s.rules = "strict" /\ is_ended(s) THEN << >>
    ELSE SelectSeq(AllActions, LAMBDA a : a \notin s.filled)

next_state(s, a) ==
    LET closes == \A c \in Cells : c = a[2] \/ <<a[1], c>> \in s.filled
    IN  [s EXCEPT !.filled = s.filled \cup {a},
                  !.owned  = IF closes THEN [s.owned EXCEPT ![a[1]] = current_player(s)]
                             ELSE s.owned]

\* The state s on a Board object of the given rules.
UnderRules(s, rules) == [s EXCEPT !.rules = rules]

points_values(s) ==
    IF ~is_ended(s) THEN None
    ELSE [p \in Players |-> IF Winner(s) = p THEN 1 ELSE IF Winner(s) = 0 THEN 0 ELSE -1]

\* The state after playing the actions of `plays` from the initial state.
RECURSIVE Play(_)
Play(plays) ==
    IF plays = << >> THEN InitialState
    ELSE next_state(Play(SubSeq(plays, 1, Len(plays) - 1)), plays[Len(plays)])

\* Every action of `plays` is legal where it is played.
RECURSIVE LegalPlay(_)
LegalPlay(plays) ==
    IF plays = << >> THEN TRUE
    ELSE LET before == SubSeq(plays, 1, Len(plays) - 1)
         IN  /\ LegalPlay(before)
             /\ \E i \in 1..Len(legal_actions(Play(before))) :
                    legal_actions(Play(before))[i] = plays[Len(plays)]

(***************************************************************************)
(* MCTSNode                                                                *)
(***************************************************************************)
\* MCTSNode(parent, parent_action, action_list).  child_nodes is a dict:
\* its keys are kept in insertion order, as the sequence of (action, handle).
MCTSNode(parent, parent_action, action_list) ==
    [parent          |-> parent,
     parent_action   |-> parent_action,
     child_nodes     |-> << >>,
     untried_actions |-> action_list,
     wins            |-> 0,
     visits          |-> 0]

Root == 1

Handles(t) == 1..Len(t)

\* node.child_nodes[action]
ChildOf(t, n, action) ==
    LET i == CHOOSE i \in 1..Len(t[n].child_nodes) : t[n].child_nodes[i][1] = action
    IN  t[n].child_nodes[i][2]

\* list.remove(x): drops the first occurrence of x.
ListRemove(list, x) ==
    LET i == CHOOSE i \in 1..Len(list) :
                 list[i] = x /\ \A j \in 1..(i - 1) : list[j] # x
    IN  SubSeq(list, 1, i - 1) \o SubSeq(list, i + 1, Len(list))

(***************************************************************************)
(* ucb.  Python computes it in floats; the model computes it in fixed      *)
(* point, Scale units to 1.  Two children of one parent get equal floats   *)
(* exactly when their wins and visits agree, and the fixed-point values    *)
(* order every such pair as the floats do while the parent's visits stay   *)
(* within the table of logarithms below.                                   *)
(***************************************************************************)
explore_faction == 2

Scale == 10000

\* float('inf'): above every finite score.
Infinity == 1000000000

\* math.log(n) for n = 1..16, in Scale units.
LogTable ==
    <<0, 6931, 10986, 13863, 16094, 17918, 19459, 20794,
      21972, 23026, 23979, 24849, 25649, 26391, 27081, 27726>>

log(n) == LogTable[n]

\* The largest r in lo..hi with r * r <= x.
RECURSIVE SqrtBetween(_, _, _)
SqrtBetween(x, lo, hi) ==
    IF lo = hi THEN lo
    ELSE LET mid == (lo + hi + 1) \div 2
         IN  IF mid * mid <= x THEN SqrtBetween(x, mid, hi)
             ELSE SqrtBetween(x, lo, mid - 1)

\* math.sqrt(x / d) for x in Scale units and an integer d, in Scale units.
sqrt(x, d) == SqrtBetween((x * Scale) \div d, 0, 2 * Scale)

\* ucb with 0 for a node never visited, in place of float('inf').
ucb_unvisited_zero(t, n, is_opponent) ==
    IF t[n].visits = 0 THEN 0
    ELSE LET win_rate == (t[n].wins * Scale) \div t[n].visits
             seen_rate == IF is_opponent THEN Scale - win_rate ELSE win_rate
             total_visits_parent ==
                 IF t[n].parent # NoNode THEN t[t[n].parent].visits ELSE 1
         IN  seen_rate + explore_faction * sqrt(log(total_visits_parent), t[n].visits)

ucb(t, n, is_opponent) ==
    IF t[n].visits = 0 THEN Infinity
    ELSE LET win_rate == (t[n].wins * Scale) \div t[n].visits
             seen_rate == IF is_opponent THEN Scale - win_rate ELSE win_rate
             total_visits_parent ==
                 IF t[n].parent # NoNode THEN t[t[n].parent].visits ELSE 1
         IN  seen_rate + explore_faction * sqrt(log(total_visits_parent), t[n].visits)

\* The second argument traverse_nodes passes to ucb for a child:
\* bot_identity != child.parent_action, an int against an action tuple.
IsOpponentArg(identity, t, child) ==
    PyNotEqual(PyInt(identity), PyTuple(t[child].parent_action))

\* ucb_scores of traverse_nodes, in the order of node.child_nodes.
UcbScores(t, n, identity) ==
    [i \in 1..Len(t[n].child_nodes) |->
        ucb(t, t[n].child_nodes[i][2], IsOpponentArg(identity, t, t[n].child_nodes[i][2]))]

\* max(d, key=d.get) over a dict whose values are `scores`, in key order:
\* the index of the first key with the greatest value.
FirstMax(scores) ==
    CHOOSE i \in 1..Len(scores) :
        /\ \A j \in 1..Len(scores) : scores[j] <= scores[i]
        /\ \A j \in 1..(i - 1) : scores[j] < scores[i]

\* best_action of traverse_nodes at node n.
SelectAction(t, n, identity) ==
    t[n].child_nodes[FirstMax(UcbScores(t, n, identity))][1]

(***************************************************************************)
(* get_best_action                                                         *)
(***************************************************************************)
\* win_rate > max_win_rate, both rationals given as numerator and denominator
\* (denominators positive).  Float division rounds equal rationals equally.
\* win_rate >= max_win_rate in place of win_rate > max_win_rate.
RateGreaterOrEqual(n1, d1, n2, d2) == n1 * d2 >= n2 * d1

RateGreater(n1, d1, n2, d2) == n1 * d2 > n2 * d1

\* The loop of get_best_action over child_nodes.items() from index i on,
\* with best_action = best and max_win_rate = max_num / max_den so far.
RECURSIVE BestActionLoop(_, _, _, _, _, _)
BestActionLoop(t, n, i, best, max_num, max_den) ==
    IF i > Len(t[n].child_nodes) THEN best
    ELSE LET child == t[n].child_nodes[i][2]
             num == IF t[child].visits > 0 THEN t[child].wins ELSE 0
             den == IF t[child].visits > 0 THEN t[child].visits ELSE 1
         IN  IF RateGreater(num, den, max_num, max_den)
             THEN BestActionLoop(t, n, i + 1, t[n].child_nodes[i][1], num, den)
             ELSE BestActionLoop(t, n, i + 1, best, max_num, max_den)

\* get_best_action with max_win_rate = 0.0 at the start, in place of -1.0.
get_best_action_from_zero(t, n) == BestActionLoop(t, n, 1, None, 0, 1)

get_best_action(t, n) == BestActionLoop(t, n, 1, None, -1, 1)

(***************************************************************************)
(* rollout of mcts_modified.py                                             *)
(***************************************************************************)
count_player_boxes(owned) ==
    [p \in Players |-> Cardinality({b \in DOMAIN owned : owned[b] = p})]

\* `win` of the scan: the payoff of new_state for bot_identity, 0 if none.
ScanWin(new_state, identity) ==
    IF points_values(new_state) # None THEN points_values(new_state)[identity] ELSE 0

\* The index in legal_actions(s) at which the scan breaks, 0 if it does not.
WinIndex(s, identity) ==
    LET legal == legal_actions(s)
        wins == {i \in 1..Len(legal) : ScanWin(next_state(s, legal[i]), identity) = 1}
    IN  IF wins = {} THEN 0 ELSE CHOOSE i \in wins : \A j \in wins : i <= j

\* The keys of action_scores after a scan that did not break, in insertion
\* order; every value is 100.
ActionScores(s) ==
    LET curr_player == current_player(s)
        count == count_player_boxes(owned_boxes(s))
    IN  SelectSeq(legal_actions(s),
                  LAMBDA a : count_player_boxes(owned_boxes(next_state(s, a)))[curr_player]
                                 > count[curr_player])

(***************************************************************************)
(* The inputs of think                                                     *)
(***************************************************************************)
\* The largest num_nodes tried.
MaxNumNodes == 5

\* Plays from the initial state to the states think is called on.
RootPlays ==
    { \* five legal actions
      << <<2, 1>> >>,
      \* one legal action left, the mover wins with it
      << <<1, 1>>, <<1, 2>>, <<3, 1>>, <<3, 2>>, <<2, 1>> >>,
      \* one legal action left, it draws
      << <<1, 1>>, <<1, 2>>, <<3, 1>>, <<2, 1>>, <<2, 2>> >>,
      \* two legal actions
      << <<3, 1>>, <<1, 1>>, <<3, 2>>, <<2, 1>> >>,
      \* two legal actions, the mover wins with either and a cell stays empty
      << <<2, 1>>, <<1, 1>>, <<2, 2>>, <<3, 1>> >>,
      \* three legal actions, the mover cannot win any more
      << <<1, 1>>, <<2, 1>>, <<2, 2>> >>,
      \* three legal actions, each closes a box
      << <<1, 1>>, <<2, 1>>, <<3, 1>> >>,
      \* four legal actions
      << <<3, 1>>, <<3, 2>> >>,
      \* an ended state
      << <<1, 1>>, <<1, 2>>, <<2, 1>>, <<2, 2>> >> }

(***************************************************************************)
(* think                                                                   *)
(***************************************************************************)
Init ==
    /\ variant \in {"vanilla", "modified"}
    /\ num_nodes \in 0..MaxNumNodes
    /\ \E plays \in RootPlays : LegalPlay(plays) /\ current_state = Play(plays)
    /\ bot_identity = current_player(current_state)
    /\ tree = <<MCTSNode(NoNode, None, legal_actions(current_state))>>
    /\ iter = 0
    /\ pc = "loop"
    /\ node = Root
    /\ state = current_state
    /\ sim_state = current_state
    /\ sim_steps = 0
    /\ won = FALSE
    /\ bp_node = NoNode
    /\ bp_entry = tree
    /\ best_action = None

\* for _ in range(num_nodes): the next round calls traverse_nodes on the
\* root; after the last one think goes on to get_best_action.
LoopHead ==
    /\ pc = "loop"
    /\ IF iter < num_nodes
       THEN /\ node' = Root
            /\ state' = current_state
            /\ pc' = "traverse"
       ELSE /\ pc' = "best"
            /\ UNCHANGED <<node, state>>
    /\ UNCHANGED <<variant, num_nodes, current_state, bot_identity, tree, iter,
                   sim_state, sim_steps, won, bp_node, bp_entry, best_action>>

\* traverse_nodes, the two base cases: it returns node and state to think.
TraverseReturn ==
    /\ pc = "traverse"
    /\ is_ended(state) \/ tree[node].untried_actions # << >>
    /\ pc' = "expand"
    /\ UNCHANGED <<variant, num_nodes, current_state, bot_identity, tree, iter, node,
                   state, sim_state, sim_steps, won, bp_node, bp_entry, best_action>>

\* The round without `state = board.next_state(state, best_action)`.
TraverseDescendKeepsState ==
    /\ pc = "traverse"
    /\ ~is_ended(state)
    /\ tree[node].untried_actions = << >>
    /\ node' = ChildOf(tree, node, SelectAction(tree, node, bot_identity))
    /\ UNCHANGED <<variant, num_nodes, current_state, bot_identity, tree, iter, pc,
                   state, sim_state, sim_steps, won, bp_node, bp_entry, best_action>>

\* traverse_nodes, one round of the loop that moves to the best child.
TraverseDescend ==
    /\ pc = "traverse"
    /\ ~is_ended(state)
    /\ tree[node].untried_actions = << >>
    /\ LET best == SelectAction(tree, node, bot_identity)
       IN  /\ node' = ChildOf(tree, node, best)
           /\ state' = next_state(state, best)
    /\ UNCHANGED <<variant, num_nodes, current_state, bot_identity, tree, iter, pc,
                   sim_state, sim_steps, won, bp_node, bp_entry, best_action>>

\* expand_leaf without `node.untried_actions.remove(new_action)`.
ExpandTreeKeepsUntried(t, n, s, i) ==
    LET new_action == t[n].untried_actions[i]
        new_state == next_state(s, new_action)
        new_node == MCTSNode(n, new_action, legal_actions(new_state))
        handle == Len(t) + 1
    IN  Append([t EXCEPT ![n].child_nodes = Append(@, <<new_action, handle>>)],
               new_node)

\* The tree after expand_leaf(n, board, s) has drawn untried_actions[i].
ExpandTree(t, n, s, i) ==
    LET new_action == t[n].untried_actions[i]
        new_state == next_state(s, new_action)
        new_node == MCTSNode(n, new_action, legal_actions(new_state))
        handle == Len(t) + 1
    IN  Append([t EXCEPT ![n].child_nodes = Append(@, <<new_action, handle>>),
                         ![n].untried_actions = ListRemove(@, new_action)],
               new_node)

\* think: node.untried_actions is non-empty, so expand_leaf is called; then
\* rollout is called on the new state.
ExpandLeaf ==
    /\ pc = "expand"
    /\ tree[node].untried_actions # << >>
    /\ \E i \in 1..Len(tree[node].untried_actions) :
           /\ tree' = ExpandTree(tree, node, state, i)
           /\ node' = Len(tree) + 1
           /\ state' = next_state(state, tree[node].untried_actions[i])
           /\ sim_state' = next_state(state, tree[node].untried_actions[i])
    /\ sim_steps' = 0
    /\ pc' = "rollout"
    /\ UNCHANGED <<variant, num_nodes, current_state, bot_identity, iter, won,
                   bp_node, bp_entry, best_action>>

\* think: node.untried_actions is empty, rollout is called on the state
\* traverse_nodes returned.
SkipExpand ==
    /\ pc = "expand"
    /\ tree[node].untried_actions = << >>
    /\ sim_state' = state
    /\ sim_steps' = 0
    /\ pc' = "rollout"
    /\ UNCHANGED <<variant, num_nodes, current_state, bot_identity, tree, iter, node,
                   state, won, bp_node, bp_entry, best_action>>

\* rollout's count of rounds; it is kept up to one past the longest game.
StepsAfter(k) == IF k > NumCells THEN k ELSE k + 1

\* rollout of mcts_vanilla.py, one round of its loop.
RolloutStepVanilla ==
    /\ pc = "rollout"
    /\ variant = "vanilla"
    /\ ~is_ended(sim_state)
    /\ \E i \in 1..Len(legal_actions(sim_state)) :
           sim_state' = next_state(sim_state, legal_actions(sim_state)[i])
    /\ sim_steps' = StepsAfter(sim_steps)
    /\ UNCHANGED <<variant, num_nodes, current_state, bot_identity, tree, iter, pc,
                   node, state, won, bp_node, bp_entry, best_action>>

\* The round without `state = new_state` before the break.
HeuristicNextKeepsState(s, identity) ==
    LET legal == legal_actions(s)
        win == WinIndex(s, identity)
        scored == ActionScores(s)
    IN  IF win # 0 THEN {s}
        ELSE IF scored # << >> THEN {next_state(s, scored[1])}
        ELSE {next_state(s, legal[i]) : i \in 1..Len(legal)}

\* The round without `if not action_taken`: a scored action replaces the
\* winning one.
HeuristicNextScoredFirst(s, identity) ==
    LET legal == legal_actions(s)
        win == WinIndex(s, identity)
        scored == ActionScores(s)
    IN  IF scored # << >> THEN {next_state(s, scored[1])}
        ELSE IF win # 0 THEN {next_state(s, legal[win])}
        ELSE {next_state(s, legal[i]) : i \in 1..Len(legal)}

\* The states one round of the loop of mcts_modified.py's rollout can leave.
HeuristicNext(s, identity) ==
    LET legal == legal_actions(s)
        win == WinIndex(s, identity)
        scored == ActionScores(s)
    IN  IF win # 0 THEN {next_state(s, legal[win])}
        ELSE IF scored # << >> THEN {next_state(s, scored[1])}
        ELSE {next_state(s, legal[i]) : i \in 1..Len(legal)}

\* rollout of mcts_modified.py, one round of its loop.
RolloutStepModified ==
    /\ pc = "rollout"
    /\ variant = "modified"
    /\ ~is_ended(sim_state)
    /\ sim_state' \in HeuristicNext(sim_state, bot_identity)
    /\ sim_steps' = StepsAfter(sim_steps)
    /\ UNCHANGED <<variant, num_nodes, current_state, bot_identity, tree, iter, pc,
                   node, state, won, bp_node, bp_entry, best_action>>

\* rollout: the loop condition fails, it returns state as terminal_state.
RolloutReturn ==
    /\ pc = "rollout"
    /\ is_ended(sim_state)
    /\ pc' = "is_win"
    /\ UNCHANGED <<variant, num_nodes, current_state, bot_identity, tree, iter, node,
                   state, sim_state, sim_steps, won, bp_node, bp_entry, best_action>>

\* The payoff test for the other player.
is_win_of_other_player(s, identity_of_bot) == points_values(s)[3 - identity_of_bot] = 1

\* is_win(board, state, identity_of_bot), given outcome is not None.
is_win(s, identity_of_bot) == points_values(s)[identity_of_bot] = 1

\* think: won = is_win(board, terminal_state, bot_identity), then the call
\* backpropagate(node, won).  A failed assertion ends think.
IsWin ==
    /\ pc = "is_win"
    /\ IF points_values(sim_state) = None
       THEN /\ pc' = "assertion_error"
            /\ UNCHANGED <<won, bp_node, bp_entry>>
       ELSE /\ won' = is_win(sim_state, bot_identity)
            /\ bp_node' = node
            /\ bp_entry' = tree
            /\ pc' = "backpropagate"
    /\ UNCHANGED <<variant, num_nodes, current_state, bot_identity, tree, iter, node,
                   state, sim_state, sim_steps, best_action>>

\* backpropagate: node.visits += 1
BackpropagateVisits ==
    /\ pc = "backpropagate"
    /\ bp_node # NoNode
    /\ tree' = [tree EXCEPT ![bp_node].visits = @ + 1]
    /\ pc' = "backpropagate_wins"
    /\ UNCHANGED <<variant, num_nodes, current_state, bot_identity, iter, node, state,
                   sim_state, sim_steps, won, bp_node, bp_entry, best_action>>

\* A loss takes a win away.
WinCreditSigned(w) == IF w THEN 1 ELSE -1

\* Every rollout counts as a win.
WinCreditAlways(w) == 1

\* The wins backpropagate adds to a node.
WinCredit(w) == IF w THEN 1 ELSE 0

\* backpropagate returns after the first node.
BackpropagateStops(t, n) == NoNode

\* The node backpropagate calls itself on after n: node.parent.
BackpropagateNext(t, n) == t[n].parent

\* backpropagate: if won: node.wins += 1, then the call on node.parent.
BackpropagateWins ==
    /\ pc = "backpropagate_wins"
    /\ tree' = [tree EXCEPT ![bp_node].wins = @ + WinCredit(won)]
    /\ bp_node' = BackpropagateNext(tree, bp_node)
    /\ pc' = "backpropagate"
    /\ UNCHANGED <<variant, num_nodes, current_state, bot_identity, iter, node, state,
                   sim_state, sim_steps, won, bp_entry, best_action>>

\* backpropagate: node is None, every call returns; the round of think ends.
BackpropagateReturn ==
    /\ pc = "backpropagate"
    /\ bp_node = NoNode
    /\ iter' = iter + 1
    /\ pc' = "loop"
    /\ UNCHANGED <<variant, num_nodes, current_state, bot_identity, tree, node, state,
                   sim_state, sim_steps, won, bp_node, bp_entry, best_action>>

\* think: best_action = get_best_action(root_node); return best_action
GetBestAction ==
    /\ pc = "best"
    /\ best_action' = get_best_action(tree, Root)
    /\ pc' = "done"
    /\ UNCHANGED <<variant, num_nodes, current_state, bot_identity, tree, iter, node,
                   state, sim_state, sim_steps, won, bp_node, bp_entry>>

Next ==
    \/ LoopHead
    \/ TraverseReturn
    \/ TraverseDescend
    \/ ExpandLeaf
    \/ SkipExpand
    \/ RolloutStepVanilla
    \/ RolloutStepModified
    \/ RolloutReturn
    \/ IsWin
    \/ BackpropagateVisits
    \/ BackpropagateWins
    \/ BackpropagateReturn
    \/ GetBestAction

Spec == Init /\ [][Next]_vars

(***************************************************************************)
(* think as sequential code: a statement that can run does run.  The runs  *)
(* are those of Spec from the roots with at least half of the cells        *)
(* marked and a budget of at most MaxWalkNodes.                            *)
(***************************************************************************)
MaxWalkNodes == 3

InitWalk ==
    /\ Init
    /\ num_nodes <= MaxWalkNodes
    /\ 2 * Cardinality(current_state.filled) >= NumCells

FairSpec == InitWalk /\ [][Next]_vars /\ WF_vars(Next)

(***************************************************************************)
(* traverse_nodes and get_best_action as functions of a tree: a root over  *)
(* one of the states above with some of its actions expanded, in any       *)
(* order, into children with any counts.                                   *)
(***************************************************************************)
\* The largest visits of a child in these trees.
MaxVisits == 2

\* The sequences of distinct elements of the sequence `list`.
RECURSIVE Arrangements(_)
Arrangements(list) ==
    {<< >>} \cup
    UNION {{<<list[i]>> \o rest : rest \in Arrangements(ListRemove(list, list[i]))}
               : i \in 1..Len(list)}

\* A visited child of node 1 over state s, reached by `action`.
ChildWith(s, action, visits, wins) ==
    [MCTSNode(Root, action, legal_actions(next_state(s, action)))
         EXCEPT !.visits = visits, !.wins = wins]

RECURSIVE SumOver(_, _)
SumOver(f, S) ==
    IF S = {} THEN 0
    ELSE LET x == CHOOSE x \in S : TRUE IN f[x] + SumOver(f, S \ {x})

\* The tree whose root over s has the children `expanded` with `stats`; the
\* root has been visited once more than its children together.
TreeWith(s, expanded, stats) ==
    LET kids == [i \in 1..Len(expanded) |->
                    ChildWith(s, expanded[i], stats[i][1], stats[i][2])]
        left == SelectSeq(legal_actions(s),
                          LAMBDA a : \A i \in 1..Len(expanded) : expanded[i] # a)
        root == [MCTSNode(NoNode, None, left) EXCEPT
                    !.child_nodes = [i \in 1..Len(expanded) |-> <<expanded[i], i + 1>>],
                    !.visits = 1 + SumOver([i \in 1..Len(expanded) |-> stats[i][1]],
                                           1..Len(expanded)),
                    !.wins = SumOver([i \in 1..Len(expanded) |-> stats[i][2]],
                                     1..Len(expanded))]
    IN  <<root>> \o kids

VisitsWins == {<<v, w>> \in (0..MaxVisits) \X (0..MaxVisits) : w <= v}

InitTree ==
    /\ variant \in {"vanilla", "modified"}
    /\ num_nodes = 0
    /\ \E plays \in RootPlays :
           /\ Len(plays) >= 3
           /\ current_state = Play(plays)
    /\ bot_identity = current_player(current_state)
    /\ \E expanded \in Arrangements(legal_actions(current_state)) :
           /\ expanded # << >>
           /\ \E stats \in [1..Len(expanded) -> VisitsWins] :
                  tree = TreeWith(current_state, expanded, stats)
    /\ iter = 0
    /\ pc \in {"traverse", "best"}
    /\ node = Root
    /\ state = current_state
    /\ sim_state = current_state
    /\ sim_steps = 0
    /\ won = FALSE
    /\ bp_node = NoNode
    /\ bp_entry = tree
    /\ best_action = None

NextTree ==
    \/ TraverseReturn
    \/ TraverseDescend
    \/ GetBestAction

SpecTree == InitTree /\ [][NextTree]_vars

(***************************************************************************)
(* rollout as a function of a state and the bot's identity: called on any  *)
(* state the game can reach.  rollout is sequential code: a round of its   *)
(* loop that can run does run.                                             *)
(***************************************************************************)
\* The states reachable from those of S in at most k plies.
RECURSIVE ReachableWithin(_, _)
ReachableWithin(S, k) ==
    IF k = 0 THEN S
    ELSE LET more == UNION {{next_state(s, legal_actions(s)[i]) :
                                i \in 1..Len(legal_actions(s))} : s \in S}
         IN  ReachableWithin(S \cup more, k - 1)

ReachableStates == ReachableWithin({InitialState}, NumCells)

InitRollout ==
    /\ variant \in {"vanilla", "modified"}
    /\ num_nodes = 0
    /\ current_state \in ReachableStates
    /\ bot_identity \in Players
    /\ tree = <<MCTSNode(NoNode, None, legal_actions(current_state))>>
    /\ iter = 0
    /\ pc = "rollout"
    /\ node = Root
    /\ state = current_state
    /\ sim_state = current_state
    /\ sim_steps = 0
    /\ won = FALSE
    /\ bp_node = NoNode
    /\ bp_entry = tree
    /\ best_action = None

NextRollout ==
    \/ RolloutStepVanilla
    \/ RolloutStepModified
    \/ RolloutReturn

SpecRollout == InitRollout /\ [][NextRollout]_vars /\ WF_vars(NextRollout)

(***************************************************************************)
(* think on a Board object whose legal_actions still lists the empty       *)
(* cells of an ended state.                                                *)
(***************************************************************************)
InitLenient ==
    /\ variant \in {"vanilla", "modified"}
    /\ num_nodes \in 0..MaxNumNodes
    /\ \E plays \in RootPlays :
           LegalPlay(plays) /\ current_state = UnderRules(Play(plays), "lenient")
    /\ bot_identity = current_player(current_state)
    /\ tree = <<MCTSNode(NoNode, None, legal_actions(current_state))>>
    /\ iter = 0
    /\ pc = "loop"
    /\ node = Root
    /\ state = current_state
    /\ sim_state = current_state
    /\ sim_steps = 0
    /\ won = FALSE
    /\ bp_node = NoNode
    /\ bp_entry = tree
    /\ best_action = None

SpecLenient == InitLenient /\ [][Next]_vars

(***************************************************************************)
(* rollout called on a Board object of any rules, the one on which no      *)
(* state is ended among them.                                              *)
(***************************************************************************)
InitRolloutRules ==
    /\ variant \in {"vanilla", "modified"}
    /\ num_nodes = 0
    /\ \E s \in ReachableStates : \E rules \in Rules :
           current_state = UnderRules(s, rules)
    /\ bot_identity \in Players
    /\ tree = <<MCTSNode(NoNode, None, legal_actions(current_state))>>
    /\ iter = 0
    /\ pc = "rollout"
    /\ node = Root
    /\ state = current_state
    /\ sim_state = current_state
    /\ sim_steps = 0
    /\ won = FALSE
    /\ bp_node = NoNode
    /\ bp_entry = tree
    /\ best_action = None

SpecRolloutRules == InitRolloutRules /\ [][NextRollout]_vars /\ WF_vars(NextRollout)

(***************************************************************************)
(* Properties                                                              *)
(***************************************************************************)
\* The elements of a sequence.
Range(list) == {list[i] : i \in 1..Len(list)}

\* The handles on the parent chain from n to the root, n included.
RECURSIVE Chain(_, _)
Chain(t, n) == IF n = NoNode THEN {} ELSE {n} \cup Chain(t, t[n].parent)

\* A backpropagate walk has incremented some node and not yet returned.
WalkUnderWay ==
    \/ pc = "backpropagate_wins"
    \/ pc = "backpropagate" /\ bp_node # NoNode /\ bp_node # node

\* C1: for a non-terminal current_state and a budget of at least 1, the
\* action think returns is a legal action of current_state, in both variants
\* and whatever the random choices were.
C1_ReturnedActionIsLegal ==
    (pc = "done" /\ ~is_ended(current_state) /\ num_nodes >= 1)
        => best_action \in Range(legal_actions(current_state))

C1_Witness ==
    /\ pc = "done"
    /\ variant = "modified"
    /\ num_nodes = MaxNumNodes
    /\ Len(legal_actions(current_state)) >= 3
    /\ best_action \in Range(legal_actions(current_state))
    /\ best_action # legal_actions(current_state)[1]

\* The win rate get_best_action gives the i-th child of n is at least that
\* of the j-th: wins/visits, or 0 for a child never visited.
RateAtLeast(t, n, i, j) ==
    LET ci == t[n].child_nodes[i][2]
        cj == t[n].child_nodes[j][2]
        ni == IF t[ci].visits > 0 THEN t[ci].wins ELSE 0
        di == IF t[ci].visits > 0 THEN t[ci].visits ELSE 1
        nj == IF t[cj].visits > 0 THEN t[cj].wins ELSE 0
        dj == IF t[cj].visits > 0 THEN t[cj].visits ELSE 1
    IN  ni * dj >= nj * di

\* C2: on a root with at least one child, get_best_action returns the
\* action of a child whose win rate (0 when never visited) is greatest among
\* the root's children, the first inserted of those that share it.
C2_BestActionIsFirstMaxWinRate ==
    (pc = "done" /\ tree[Root].child_nodes # << >>)
        => \E i \in 1..Len(tree[Root].child_nodes) :
               /\ best_action = tree[Root].child_nodes[i][1]
               /\ \A j \in 1..Len(tree[Root].child_nodes) : RateAtLeast(tree, Root, i, j)
               /\ \A j \in 1..(i - 1) : ~RateAtLeast(tree, Root, j, i)

\* get_best_action has run on a root where a never-visited child comes
\* before a visited child with no win, and before a better child.
C2_Witness ==
    /\ pc = "done"
    /\ Len(tree[Root].child_nodes) = 3
    /\ tree[tree[Root].child_nodes[1][2]].visits = 0
    /\ tree[tree[Root].child_nodes[2][2]].visits = 2
    /\ tree[tree[Root].child_nodes[2][2]].wins = 1
    /\ tree[tree[Root].child_nodes[3][2]].visits = 1
    /\ tree[tree[Root].child_nodes[3][2]].wins = 1
    /\ best_action = tree[Root].child_nodes[3][1]

\* C3: in traverse_nodes the win rate of a child is inverted exactly when
\* the player to move at the parent's state is not the searching player.
C3_InversionFollowsMover ==
    (pc = "traverse" /\ ~is_ended(state) /\ tree[node].untried_actions = << >>)
        => \A i \in 1..Len(tree[node].child_nodes) :
               IsOpponentArg(bot_identity, tree, tree[node].child_nodes[i][2])
                   <=> current_player(state) # bot_identity

\* C4 as claimed: in every state, also inside a backpropagate walk, no node
\* has more visits than its parent.
C4_VisitsNeverAboveParent ==
    \A n \in Handles(tree) :
        tree[n].parent # NoNode => tree[n].visits <= tree[tree[n].parent].visits

\* C4, amended: while no backpropagate walk is under way (so at every
\* boundary between rounds of think's loop) no node has more visits than its
\* parent; inside a walk only the node the walk incremented last, whose
\* parent it has not reached yet, exceeds its parent, and by 1.
C4_VisitsAboveParentOnlyInsideWalk ==
    \A n \in Handles(tree) :
        tree[n].parent # NoNode =>
            \/ tree[n].visits <= tree[tree[n].parent].visits
            \/ /\ WalkUnderWay
               /\ tree[n].visits = tree[tree[n].parent].visits + 1
               /\ tree[n].parent = (IF pc = "backpropagate" THEN bp_node
                                    ELSE tree[bp_node].parent)

\* A round of think has ended, after a second walk through a child that is
\* as visited as its parent.
C4_Witness ==
    /\ pc = "loop"
    /\ iter >= 2
    /\ \E n \in Handles(tree) :
           /\ tree[n].parent # NoNode
           /\ tree[n].visits = tree[tree[n].parent].visits
           /\ tree[n].visits >= 2

\* C5: in every state, also between the two increments of backpropagate,
\* every node has 0 <= wins <= visits.
C5_WinsWithinVisits ==
    \A n \in Handles(tree) : 0 <= tree[n].wins /\ tree[n].wins <= tree[n].visits

\* backpropagate stands between the increment of visits and that of wins of
\* a node that had won every earlier rollout through it, having won again.
C5_Witness ==
    /\ pc = "backpropagate_wins"
    /\ won
    /\ tree[bp_node].visits >= 2
    /\ tree[bp_node].wins = tree[bp_node].visits - 1

\* C6: when backpropagate(leaf, won) has returned, every node on the parent
\* chain from leaf to the root has 1 more visit than at the call, and 1 more
\* win if won and as many if not, the same at every depth; every other node
\* has the visits and wins it had, and nothing else of the tree has changed.
C6_BackpropagateWriteLaw ==
    (pc = "backpropagate" /\ bp_node = NoNode)
        => /\ Len(tree) = Len(bp_entry)
           /\ \A n \in Handles(tree) :
                  /\ tree[n].visits =
                         bp_entry[n].visits + (IF n \in Chain(bp_entry, node) THEN 1 ELSE 0)
                  /\ tree[n].wins =
                         bp_entry[n].wins + (IF n \in Chain(bp_entry, node) /\ won THEN 1 ELSE 0)
                  /\ tree[n] = [bp_entry[n] EXCEPT !.visits = tree[n].visits,
                                                   !.wins = tree[n].wins]

\* backpropagate has returned from a won rollout below a grandchild of the
\* root, in a tree that has nodes off the chain.
C6_Witness ==
    /\ pc = "backpropagate"
    /\ bp_node = NoNode
    /\ won
    /\ Cardinality(Chain(tree, node)) = 3
    /\ Len(tree) >= 4
    /\ tree[node].wins = 1
    /\ bp_entry[Root].wins < tree[Root].wins

\* C7: in traverse_nodes, at a node that has not ended and has no untried
\* action, a child never visited gets +infinity from ucb, above the score of
\* every visited sibling, and the walk moves to a child never visited.
C7_UnvisitedChildChosen ==
    [][(/\ pc = "traverse"
        /\ ~is_ended(state)
        /\ tree[node].untried_actions = << >>
        /\ \E i \in 1..Len(tree[node].child_nodes) :
               tree[tree[node].child_nodes[i][2]].visits = 0)
       => /\ \A i \in 1..Len(tree[node].child_nodes) :
                 LET child == tree[node].child_nodes[i][2]
                     score == UcbScores(tree, node, bot_identity)[i]
                 IN  IF tree[child].visits = 0 THEN score = Infinity
                     ELSE score < Infinity
          /\ \E i \in 1..Len(tree[node].child_nodes) :
                 /\ node' = tree[node].child_nodes[i][2]
                 /\ tree[node'].visits = 0]_vars

\* The walk has moved to a child never visited, inserted after a visited
\* sibling that has no win.
C7_Witness ==
    /\ pc = "traverse"
    /\ node # Root
    /\ tree[node].visits = 0
    /\ tree[Root].child_nodes[1][2] # node
    /\ tree[tree[Root].child_nodes[1][2]].visits = MaxVisits
    /\ tree[tree[Root].child_nodes[1][2]].wins = 0

\* C8: on a root state with exactly one legal action think returns that
\* action, for every budget, 0 included.
C8_ForcedMoveReturned ==
    (pc = "done" /\ Len(legal_actions(current_state)) = 1)
        => best_action = legal_actions(current_state)[1]

\* C9: a rollout, of either policy, called on a state of the game returns,
\* the state it returns has ended, and its loop has run at most as many
\* rounds as a game has plies.
C9_RolloutReturnsEndedState ==
    (pc = "rollout") ~> (pc = "is_win" /\ is_ended(sim_state) /\ sim_steps <= NumCells)

\* The heuristic rollout has returned after as many rounds as a game has
\* plies.
C9_Witness ==
    /\ pc = "is_win"
    /\ variant = "modified"
    /\ is_ended(sim_state)
    /\ sim_steps = NumCells

\* The indices of the legal actions of s that win the game for identity.
WinningIndices(s, identity) ==
    {i \in 1..Len(legal_actions(s)) :
        LET after == next_state(s, legal_actions(s)[i])
        IN  is_ended(after) /\ points_values(after)[identity] = 1}

\* C10: a round of the heuristic rollout in a state that has not ended and
\* has a legal action winning the game for the searching player leaves the
\* state that the first such action, in the order of legal_actions, leads
\* to, whatever the earlier actions scored.
C10_FirstWinningActionTaken ==
    [][(/\ pc = "rollout"
        /\ variant = "modified"
        /\ ~is_ended(sim_state)
        /\ WinningIndices(sim_state, bot_identity) # {})
       => \E i \in WinningIndices(sim_state, bot_identity) :
              /\ \A j \in WinningIndices(sim_state, bot_identity) : i <= j
              /\ sim_state' = next_state(sim_state, legal_actions(sim_state)[i])]_vars

\* The first round of a heuristic rollout has taken the winning action, the
\* second in order, from a state whose first legal action scores the bonus.
C10_Witness ==
    /\ pc = "rollout"
    /\ variant = "modified"
    /\ sim_steps = 1
    /\ bot_identity = current_player(current_state)
    /\ Len(legal_actions(current_state)) = 2
    /\ ActionScores(current_state) = legal_actions(current_state)
    /\ WinningIndices(current_state, bot_identity) = {2}
    /\ sim_state = next_state(current_state, legal_actions(current_state)[2])

\* C12: when think ends over a root without children (a budget of 0, or a
\* current_state with no legal action), the value it returns is a "no
\* decision" signal and not None.
C12_NoDecisionSignalled ==
    (pc = "done" /\ tree[Root].child_nodes = << >>) => best_action # None

\* C18: is_win is called on ended states only, so its assertion never fails;
\* the value of won is the payoff test for the player to move at
\* current_state, whoever moves at the expanded node.
C18_IsWinOnEndedStateForBot ==
    /\ pc # "assertion_error"
    /\ pc = "is_win" => is_ended(sim_state) /\ points_values(sim_state) # None
    /\ pc \in {"backpropagate", "backpropagate_wins"} =>
           (won <=> Winner(sim_state) = current_player(current_state))

\* is_win has returned True for the bot at a node where the other player moves.
C18_Witness ==
    /\ pc = "backpropagate"
    /\ bp_node = node
    /\ node # Root
    /\ won
    /\ current_player(state) # bot_identity

\* C19: after k completed rounds of think's loop root.visits is k and the
\* tree has at most k nodes besides the root; the tree grows by one node
\* exactly in the step that calls expand_leaf, and root.visits grows by one
\* exactly in the step of backpropagate on the root.
C19_RootVisitsCountRounds ==
    /\ [](pc = "loop" => tree[Root].visits = iter /\ Len(tree) - 1 <= iter)
    /\ [][/\ Len(tree') = Len(tree) +
                 (IF pc = "expand" /\ tree[node].untried_actions # << >> THEN 1 ELSE 0)
          /\ tree'[Root].visits = tree[Root].visits +
                 (IF pc = "backpropagate" /\ bp_node = Root THEN 1 ELSE 0)]_vars

\* think has finished at least two rounds, one of them without a new node.
C19_Witness ==
    /\ pc = "loop"
    /\ iter = num_nodes
    /\ iter >= 2
    /\ Len(tree) - 1 < iter

\* C20: between the rounds of think every node but the root has visits >= 1;
\* whenever traverse_nodes computes ucb for the children of a node, each
\* child has visits >= 1, a parent, and parent.visits >= 1, so that
\* log(parent.visits) / visits is defined and not negative.
C20_UcbOnVisitedNodesOnly ==
    /\ pc \in {"loop", "traverse", "expand"} =>
           \A n \in Handles(tree) \ {Root} : tree[n].visits >= 1
    /\ (pc = "traverse" /\ ~is_ended(state) /\ tree[node].untried_actions = << >>) =>
           \A i \in 1..Len(tree[node].child_nodes) :
               LET child == tree[tree[node].child_nodes[i][2]]
               IN  /\ child.visits >= 1
                   /\ child.parent # NoNode
                   /\ tree[child.parent].visits >= 1
                   /\ log(tree[child.parent].visits) >= 0

\* traverse_nodes computes ucb for the children of a node below the root.
C20_Witness ==
    /\ pc = "traverse"
    /\ ~is_ended(state)
    /\ tree[node].untried_actions = << >>
    /\ node # Root
    /\ Len(tree[node].child_nodes) >= 1

\* The state of node n: current_state advanced by the parent_action values
\* on the way from the root down to n.
RECURSIVE NodeState(_, _)
NodeState(t, n) ==
    IF t[n].parent = NoNode THEN current_state
    ELSE next_state(NodeState(t, t[n].parent), t[n].parent_action)

\* The keys of node.child_nodes.
Keys(t, n) == {t[n].child_nodes[i][1] : i \in 1..Len(t[n].child_nodes)}

\* C15: a call of traverse_nodes by think returns; the state it returns is
\* current_state advanced along the parent_action values down to the node it
\* returns, and that state is ended or the node has an untried action; no
\* step of the walk changes the tree.
C15_TraverseReturnsFrontier ==
    /\ (pc = "traverse") ~> (pc = "expand")
    /\ [](pc \in {"traverse", "expand"} => state = NodeState(tree, node))
    /\ [](pc = "expand" => is_ended(state) \/ tree[node].untried_actions # << >>)
    /\ [][pc = "traverse" => tree' = tree]_vars

\* traverse_nodes has gone down from the root and returned a node that can
\* be expanded.
C15_Witness ==
    /\ pc = "expand"
    /\ node # Root
    /\ tree[node].untried_actions # << >>
    /\ ~is_ended(state)

\* C16: between the rounds of think, at every node, untried_actions and the
\* keys of child_nodes share no action and together are the legal actions of
\* the node's state; a call of expand_leaf moves one action a of the node from
\* untried_actions to child_nodes, adds one node with that parent, parent_action
\* a and no children, and leaves every other node as it was.
C16_ExpandMovesOneAction ==
    /\ [](pc = "loop" =>
            \A n \in Handles(tree) :
                /\ Range(tree[n].untried_actions) \cap Keys(tree, n) = {}
                /\ Range(tree[n].untried_actions) \cup Keys(tree, n) =
                       Range(legal_actions(NodeState(tree, n)))
                /\ Cardinality(Range(tree[n].untried_actions)) = Len(tree[n].untried_actions)
                /\ Cardinality(Keys(tree, n)) = Len(tree[n].child_nodes))
    /\ [][(pc = "expand" /\ tree[node].untried_actions # << >>) =>
            \E a \in Range(tree[node].untried_actions) :
                LET new == Len(tree) + 1
                IN  /\ Len(tree') = new
                    /\ tree'[new].parent = node
                    /\ tree'[new].parent_action = a
                    /\ tree'[new].child_nodes = << >>
                    /\ Range(tree'[node].untried_actions) =
                           Range(tree[node].untried_actions) \ {a}
                    /\ Len(tree'[node].untried_actions) = Len(tree[node].untried_actions) - 1
                    /\ Keys(tree', node) = Keys(tree, node) \cup {a}
                    /\ ChildOf(tree', node, a) = new
                    /\ Len(tree'[node].child_nodes) = Len(tree[node].child_nodes) + 1
                    /\ tree'[node].parent = tree[node].parent
                    /\ tree'[node].parent_action = tree[node].parent_action
                    /\ tree'[node].visits = tree[node].visits
                    /\ tree'[node].wins = tree[node].wins
                    /\ \A m \in Handles(tree) \ {node} : tree'[m] = tree[m]]_vars

\* Between two rounds, a node below the root has a child and an untried action.
C16_Witness ==
    /\ pc = "loop"
    /\ \E n \in Handles(tree) \ {Root} :
           /\ tree[n].child_nodes # << >>
           /\ tree[n].untried_actions # << >>

\* C13: a call of expand_leaf with an ended state is rejected: the node keeps
\* its child_nodes and untried_actions, and think does not go on to rollout.
C13_ExpandLeafRejectsEndedState ==
    [][(pc = "expand" /\ tree[node].untried_actions # << >> /\ is_ended(state)) =>
          /\ tree'[node].child_nodes = tree[node].child_nodes
          /\ tree'[node].untried_actions = tree[node].untried_actions
          /\ pc' # "rollout"]_vars

\* C14: no call of rollout runs more rounds of its loop than the longest
\* game has plies, whatever the rules of the Board object.
C14_RolloutRoundsBounded ==
    pc = "rollout" => sim_steps <= NumCells

\* C17: whenever think calls expand_leaf, the node has an untried action and
\* the state is not ended, whatever legal_actions lists at an ended state.
C17_ExpandLeafCalledOnLiveState ==
    (pc = "expand" /\ tree[node].untried_actions # << >>) => ~is_ended(state)
====
